---------------------------- MODULE Spec2Model ----------------------------
(***************************************************************************)
(* A model of mv2tvdir.py: the filename parsing functions and the          *)
(* two-phase relocation driver process_directory with its cleanup.         *)
(*                                                                         *)
(* A filename is a sequence of one-character strings; a directory is a     *)
(* sequence of path components, each component a filename.                 *)
(***************************************************************************)
EXTENDS Integers, Sequences, FiniteSets, TLC

(***************************************************************************)
(* Characters and the regular expressions' character classes               *)
(***************************************************************************)
Digits == {"0", "1", "2", "3", "4", "5", "6", "7", "8", "9"}

\* \s of the patterns, over the model's alphabet
Whitespace == {" "}

\* SEPARATOR_PATTERN = [\s\(\)\[\]]
SEPARATOR_PATTERN == Whitespace \cup {"(", ")", "[", "]"}

\* the class [.\s\(\)\[\]] that bounds every token pattern
BoundaryClass == {"."} \cup SEPARATOR_PATTERN

None == <<"None">>

DigitVal(c) ==
    CASE c = "0" -> 0 [] c = "1" -> 1 [] c = "2" -> 2 [] c = "3" -> 3
      [] c = "4" -> 4 [] c = "5" -> 5 [] c = "6" -> 6 [] c = "7" -> 7
      [] c = "8" -> 8 [] c = "9" -> 9

DigitChar(n) ==
    CASE n = 0 -> "0" [] n = 1 -> "1" [] n = 2 -> "2" [] n = 3 -> "3"
      [] n = 4 -> "4" [] n = 5 -> "5" [] n = 6 -> "6" [] n = 7 -> "7"
      [] n = 8 -> "8" [] n = 9 -> "9"

\* str.lower() on one character, over the model's alphabet
LowerChar(c) ==
    CASE c = "A" -> "a" [] c = "E" -> "e" [] c = "K" -> "k" [] c = "M" -> "m"
      [] c = "P" -> "p" [] c = "S" -> "s" [] c = "T" -> "t" [] c = "V" -> "v"
      [] c = "W" -> "w" [] c = "X" -> "x"
      [] OTHER -> c

Lower(s) == [i \in 1..Len(s) |-> LowerChar(s[i])]

\* s[i:] and s[:i] with Python's 0-based i given as the 1-based index of the cut
Drop(s, n) == SubSeq(s, n + 1, Len(s))
Take(s, n) == SubSeq(s, 1, n)

StartsWith(s, p) == Len(p) <= Len(s) /\ Take(s, Len(p)) = p
EndsWith(s, p) == Len(p) <= Len(s) /\ Drop(s, Len(s) - Len(p)) = p

InClassAt(s, i, class) == i >= 1 /\ i <= Len(s) /\ s[i] \in class
DigitsAt(s, i, n) == \A k \in i..(i + n - 1) : InClassAt(s, k, Digits)

(***************************************************************************)
(* os.path.splitext: the extension starts at the last dot, unless only     *)
(* dots precede it                                                         *)
(***************************************************************************)
SplitDot(s) ==
    LET dots == {i \in 1..Len(s) : s[i] = "."}
    IN  IF dots = {} THEN 0
        ELSE LET last == CHOOSE i \in dots : \A j \in dots : j <= i
             IN  IF \E k \in 1..(last - 1) : s[k] # "." THEN last ELSE 0

Stem(s) == IF SplitDot(s) = 0 THEN s ELSE Take(s, SplitDot(s) - 1)
Ext(s) == IF SplitDot(s) = 0 THEN <<>> ELSE Drop(s, SplitDot(s) - 1)

(***************************************************************************)
(* normalize_filename                                                      *)
(***************************************************************************)
\* SEPARATOR_PATTERN.sub('.', filename)
SubSeparators(s) ==
    [i \in 1..Len(s) |-> IF s[i] \in SEPARATOR_PATTERN THEN "." ELSE s[i]]

HasDoubleDot(s) == \E i \in 1..(Len(s) - 1) : s[i] = "." /\ s[i + 1] = "."

\* str.replace('..', '.'): one left-to-right pass over non-overlapping pairs
RECURSIVE ReplaceDoubleDot(_)
ReplaceDoubleDot(s) ==
    IF Len(s) < 2 THEN s
    ELSE IF s[1] = "." /\ s[2] = "." THEN <<".">> \o ReplaceDoubleDot(Drop(s, 2))
    ELSE <<s[1]>> \o ReplaceDoubleDot(Drop(s, 1))

\* while '..' in normalized: normalized = normalized.replace('..', '.')
RECURSIVE CollapseDots(_)
CollapseDots(s) == IF HasDoubleDot(s) THEN CollapseDots(ReplaceDoubleDot(s)) ELSE s

normalize_filename(filename) == CollapseDots(SubSeparators(filename))

(***************************************************************************)
(* The token patterns.  Each search returns the 1-based index of the       *)
(* leftmost match (0: no match); the match starts on its boundary          *)
(* character.                                                              *)
(***************************************************************************)
\* [Ss]([0-9]{1,2})[Ee][0-9]{1,2} between boundaries, with n1 season digits
\* and n2 episode digits, matched at i
SeasonAt(s, i, n1, n2) ==
    /\ InClassAt(s, i, BoundaryClass)
    /\ InClassAt(s, i + 1, {"S", "s"})
    /\ DigitsAt(s, i + 2, n1)
    /\ InClassAt(s, i + 2 + n1, {"E", "e"})
    /\ DigitsAt(s, i + 3 + n1, n2)
    /\ InClassAt(s, i + 3 + n1 + n2, BoundaryClass)

SeasonMatches(s, i) == {nn \in {1, 2} \X {1, 2} : SeasonAt(s, i, nn[1], nn[2])}

\* the leftmost of the match positions, 0 when there is none
Leftmost(positions) ==
    IF positions = {} THEN 0
    ELSE CHOOSE i \in positions : \A j \in positions : i <= j

\* SEASON_PATTERN.search(s): [start, group1] of the leftmost match
SeasonSearch(s) ==
    LET at == Leftmost({i \in 1..Len(s) : SeasonMatches(s, i) # {}})
    IN  IF at = 0 THEN [start |-> 0, group |-> <<>>]
        ELSE LET ms == SeasonMatches(s, at)
                 \* greedy quantifiers: the longest season digits first
                 m == CHOOSE x \in ms : \A y \in ms : y[1] <= x[1]
             IN  [start |-> at, group |-> SubSeq(s, at + 2, at + 1 + m[1])]

\* TV_SHOW_PATTERN.search(filename)
is_tv_show(filename) == SeasonSearch(filename).start # 0

\* YEAR_PATTERN: (19[0-9]{2}|20[0-9]{2}) between boundaries
YearAt(s, i) ==
    /\ InClassAt(s, i, BoundaryClass)
    /\ \/ InClassAt(s, i + 1, {"1"}) /\ InClassAt(s, i + 2, {"9"})
       \/ InClassAt(s, i + 1, {"2"}) /\ InClassAt(s, i + 2, {"0"})
    /\ DigitsAt(s, i + 3, 2)
    /\ InClassAt(s, i + 5, BoundaryClass)

YearSearch(s) == Leftmost({i \in 1..Len(s) : YearAt(s, i)})

\* RESOLUTION_PATTERN: (\d+p) between boundaries, with n digits, matched at i
ResolutionAt(s, i, n) ==
    /\ InClassAt(s, i, BoundaryClass)
    /\ n >= 1
    /\ DigitsAt(s, i + 1, n)
    /\ InClassAt(s, i + 1 + n, {"p"})
    /\ InClassAt(s, i + 2 + n, BoundaryClass)

\* group(1) of the leftmost match, None without a match
ResolutionSearch(s) ==
    LET at == Leftmost({i \in 1..Len(s) : \E n \in 1..Len(s) : ResolutionAt(s, i, n)})
    IN  IF at = 0 THEN None
        ELSE LET n == CHOOSE k \in 1..Len(s) : ResolutionAt(s, at, k)
             IN  SubSeq(s, at + 1, at + 1 + n)

\* CODEC_PATTERN: (x26[45]) after a boundary and before a boundary or '-'
CodecAt(s, i) ==
    /\ InClassAt(s, i, BoundaryClass)
    /\ InClassAt(s, i + 1, {"x"})
    /\ InClassAt(s, i + 2, {"2"})
    /\ InClassAt(s, i + 3, {"6"})
    /\ InClassAt(s, i + 4, {"4", "5"})
    /\ InClassAt(s, i + 5, BoundaryClass \cup {"-"})

CodecSearch(s) ==
    LET at == Leftmost({i \in 1..Len(s) : CodecAt(s, i)})
    IN  IF at = 0 THEN None ELSE SubSeq(s, at + 1, at + 4)

match_resolution_and_codec(filename, target_resolution, target_codec) ==
    IF target_resolution = None /\ target_codec = None THEN TRUE
    ELSE /\ target_resolution # None =>
              /\ ResolutionSearch(filename) # None
              /\ Lower(ResolutionSearch(filename)) = Lower(target_resolution)
         /\ target_codec # None =>
              /\ CodecSearch(filename) # None
              /\ Lower(CodecSearch(filename)) = Lower(target_codec)

(***************************************************************************)
(* extract_show_info                                                       *)
(***************************************************************************)
\* ' '.join(parts.split('.'))
DotsToSpaces(s) == [i \in 1..Len(s) |-> IF s[i] = "." THEN " " ELSE s[i]]

\* str.strip()
RECURSIVE Strip(_)
Strip(s) ==
    IF s = <<>> THEN s
    ELSE IF s[1] \in Whitespace THEN Strip(Drop(s, 1))
    ELSE IF s[Len(s)] \in Whitespace THEN Strip(Take(s, Len(s) - 1))
    ELSE s

\* int(group)
RECURSIVE ParseInt(_)
ParseInt(ds) ==
    IF ds = <<>> THEN 0 ELSE 10 * ParseInt(Take(ds, Len(ds) - 1)) + DigitVal(ds[Len(ds)])

\* f"S{season_num:02d}"
SeasonStr(n) == <<"S", DigitChar(n \div 10), DigitChar(n % 10)>>

\* <<show_name, season_str>>, or <<None, None>>
extract_show_info(filename) ==
    LET basename == Stem(filename)
        normalized_basename == normalize_filename(basename)
        season_match == SeasonSearch(normalized_basename)
        year_match == YearSearch(normalized_basename)
        cut == IF year_match # 0 THEN year_match ELSE season_match.start
        show_name == Strip(DotsToSpaces(Take(normalized_basename, cut - 1)))
    IN  IF season_match.start = 0 THEN <<None, None>>
        ELSE IF show_name = <<>> THEN <<None, None>>
        ELSE <<show_name, SeasonStr(ParseInt(season_match.group))>>


(***************************************************************************)
(* The extension sets                                                      *)
(***************************************************************************)
VIDEO_EXTENSIONS == {<<".", "m", "k", "v">>, <<".", "m", "p", "4">>, <<".", "a", "v", "i">>}
SUBTITLE_EXTENSIONS == {<<".", "s", "r", "t">>, <<".", "a", "s", "s">>, <<".", "s", "u", "b">>}
IGNORED_EXTENSIONS ==
    {<<".", "n", "f", "o">>, <<".", "t", "x", "t">>, <<".", "j", "p", "g">>,
     <<".", "j", "p", "e", "g">>, <<".", "p", "n", "g">>, <<".", "g", "i", "f">>}

(***************************************************************************)
(* The inputs: filenames, directories, options                             *)
(***************************************************************************)
\* the most files a source tree starts with, and the most filesystem
\* operations that fail in one run
MaxFiles == 3
MaxFaults == 1

Episode == <<"A", ".", "S", "0", "1", "E", "0", "1">>
nVideo == Episode \o <<".", "7", "2", "0", "p", ".", "m", "k", "v">>
nSub == Episode \o <<".", "7", "2", "0", "p", ".", "s", "r", "t">>
nAiSub == Episode \o <<".", "7", "2", "0", "p", ".", "a", "i", ".", "s", "r", "t">>
nShort == Episode \o <<".", "m", "k", "v">>
nSpaced == <<"A", " ", "S", "0", "1", "E", "0", "1", " ", "7", "2", "0", "p", ".", "m", "k", "v">>
nMovie == <<"m", ".", "m", "k", "v">>
nNfo == <<"r", ".", "n", "f", "o">>

cS == <<"s">>
cB == <<"B">>
cT == <<"t">>
cShow == <<"A">>
cSeason == <<"S", "0", "1">>

\* source_dir and target_dir: apart, target inside source, source the
\* filesystem root
Placements ==
    {[src |-> <<cS>>, tgt |-> <<cT>>],
     [src |-> <<cS>>, tgt |-> <<cS, cT>>],
     [src |-> <<>>, tgt |-> <<cT>>]}

\* (resolution, codec) as given on the command line
Filters ==
    {<<None, None>>, <<<<"7", "2", "0", "P">>, None>>, <<None, <<"x", "2", "6", "5">>>>}

File(d, n) == [dir |-> d, name |-> n]

\* the files a tree may start with, under source_dir src and target_dir tgt
Candidates(src, tgt) ==
    {File(src, nVideo), File(src, nSub), File(src, nAiSub), File(src, nShort),
     File(src, nNfo), File(src \o <<cB>>, nSpaced), File(src \o <<cB>>, nSub),
     File(src \o <<cB>>, nMovie), File(tgt \o <<cShow, cSeason>>, nVideo)}

\* the filenames a run meets: those of the tree, and what move_file makes of
\* them
Catalogue == {nVideo, nSub, nAiSub, nShort, nSpaced, nMovie, nNfo}

IsPrefixDir(a, d) == Len(a) <= Len(d) /\ SubSeq(d, 1, Len(a)) = a
Ancestors(d) == {SubSeq(d, 1, k) : k \in 0..Len(d)}
Parent(d) == SubSeq(d, 1, Len(d) - 1)

\* normalized_filename[:-len(ext)] + ext; s[:-0] is the empty string
KeepExtension(normalized, ext) ==
    IF EndsWith(normalized, ext)
    THEN (IF ext = <<>> THEN <<>> ELSE Take(normalized, Len(normalized) - Len(ext))) \o ext
    ELSE normalized

TargetName(filename) == KeepExtension(normalize_filename(filename), Ext(filename))

\* what the loop bodies compute from a filename alone, tabulated over the
\* filenames of the model
Known == Catalogue \cup {TargetName(n) : n \in Catalogue}

Parsed ==
    [n \in Known |->
        [ext |-> Lower(Ext(n)), stem |-> Stem(n), tv |-> is_tv_show(n),
         show |-> extract_show_info(n), target |-> TargetName(n)]]

\* the show names extract_show_info finds, and their directory names
ShowNames == {Parsed[n].show[1] : n \in Known}
ShowDirs == [s \in ShowNames |-> normalize_filename(s)]

\* match_resolution_and_codec, tabulated over the filenames and the filters
Matching ==
    [n \in Known |-> [f \in Filters |-> match_resolution_and_codec(n, f[1], f[2])]]

VARIABLES
    cfg,                \* source_dir, target_dir and the options up to cleanup
    remove_source,      \* the option the cleanup reads, drawn where it is read
    dirs,               \* the directories that exist
    files,              \* the files that exist: [dir, name, orig]
    pc,                 \* main, video, subtitle, cleanup, done, exit1, aborted
    walk,               \* os.walk's pending directories, innermost last
    success_count, failure_count, skipped_count, removed_dirs_count,
    processed_dirs,
    moved_videos,       \* the dict, in insertion order: [key, target_dir, root]
    sorted_dirs, ci,    \* the cleanup loop
    faults,             \* the failed filesystem operations so far
    evals,              \* history: every file the loops visited, and how it ended
    started,            \* history: the source tree's files as each phase began
    deleted,            \* history: what rmtree deleted
    fname, info         \* extract_show_info's argument and result

vars == <<cfg, remove_source, dirs, files, pc, walk, success_count, failure_count, skipped_count,
          removed_dirs_count, processed_dirs, moved_videos, sorted_dirs, ci, faults,
          evals, started, deleted, fname, info>>

fsVars == <<dirs, files>>
countVars == <<success_count, failure_count, skipped_count, removed_dirs_count>>
cleanVars == <<remove_source, sorted_dirs, ci, deleted>>
extractVars == <<fname, info>>

(***************************************************************************)
(* The filesystem                                                          *)
(***************************************************************************)
FileAt(d, n) == {f \in files : f.dir = d /\ f.name = n}

\* os.path.exists(os.path.join(d, n))
PathExists(d, n) == FileAt(d, n) # {} \/ (d \o <<n>>) \in dirs

FilesUnder(d) == {f \in files : IsPrefixDir(d, f.dir)}
DirsUnder(d) == {x \in dirs : IsPrefixDir(d, x)}

\* os.walk's scandir of d: the names of its files and its subdirectories
Frame(d) ==
    [dir |-> d,
     files |-> {f.name : f \in {g \in files : g.dir = d}},
     kids |-> {x \in dirs : Len(x) = Len(d) + 1 /\ IsPrefixDir(d, x)}]

\* the generator runs on to its next yield of a file: a directory with
\* nothing left is done with
RECURSIVE Advance(_)
Advance(w) ==
    IF w = <<>> THEN w
    ELSE IF w[Len(w)].files = {} /\ w[Len(w)].kids = {} THEN Advance(Take(w, Len(w) - 1))
    ELSE w

\* x.count(os.sep) of the directory's path: "/" for the root, "/s/B" below it
SepCount(d) == IF d = <<>> THEN 1 ELSE Len(d)


(***************************************************************************)
(* has_ai_subtitle, create_target_directory, can_remove_directory,         *)
(* move_file                                                               *)
(***************************************************************************)
AiSuffix == <<".", "a", "i", ".", "s", "r", "t">>

\* for comparison: a test that finds the companion wherever it looks
CompanionAssumed(video_dir, video_filename) == TRUE

\* os.path.exists of "<video stem>.ai.srt" beside the video
has_ai_subtitle(video_dir, video_filename) ==
    PathExists(video_dir, Parsed[video_filename].stem \o AiSuffix)

\* the one element of a singleton: {e(x) : x \in {v}} computes v once for e
Only(S) == CHOOSE x \in S : TRUE

\* a path exists, as a directory or as a file
Exists(path, ds) ==
    path \in ds \/ (path # <<>> /\ FileAt(Parent(path), path[Len(path)]) # {})

\* os.makedirs(path) raises: the injected failure, or a file stands in the way
MakedirsRaises(path, failing) ==
    failing \/ \E a \in Ancestors(path) : a # <<>> /\ FileAt(Parent(a), a[Len(a)]) # {}

\* os.makedirs(path) unless it exists: [ok, dirs: the directories afterwards,
\* used: whether the injected failure struck]
MakeUnlessExists(path, ds, failing) ==
    IF Exists(path, ds) THEN [ok |-> TRUE, dirs |-> ds, used |-> FALSE]
    ELSE IF MakedirsRaises(path, failing) THEN [ok |-> FALSE, dirs |-> ds, used |-> failing]
    ELSE [ok |-> TRUE, dirs |-> ds \cup Ancestors(path), used |-> FALSE]

\* the season directory, made once the show directory stands
MakeSeason(shown, season_dir, fault) ==
    IF ~shown.ok THEN [target |-> None, dirs |-> shown.dirs, used |-> shown.used]
    ELSE Only({[target |-> IF made.ok THEN season_dir ELSE None,
                dirs |-> made.dirs, used |-> made.used] :
               made \in {MakeUnlessExists(season_dir, shown.dirs, fault = "mkdir_season")}})

MakeBoth(show_dir, season, fault) ==
    Only({MakeSeason(shown, show_dir \o <<season>>, fault) :
          shown \in {MakeUnlessExists(show_dir, dirs, fault = "mkdir_show")}})

\* [target: season_dir or None, dirs: the directories afterwards,
\*  used: whether the injected failure struck]
create_target_directory(base_dir, show_name, season, fault) ==
    Only({MakeBoth(show_dir, season, fault) :
          show_dir \in {base_dir \o <<ShowDirs[show_name]>>}})

can_remove_directory(directory) ==
    IF directory \notin dirs THEN FALSE
    ELSE LET names == {f.name : f \in {g \in files : g.dir = directory}}
         IN  \A n \in names : Parsed[n].ext \in IGNORED_EXTENSIONS

\* for comparison: a move_file without its try block
MoveExceptionEscapes == "raise"

\* what move_file does with an exception of shutil.move: it logs it and
\* returns False
OnMoveException == "fail_move"

\* what process_directory does with an exception of shutil.rmtree: it logs it
OnRmtreeException == "logged"

NoFile == File(<<>>, <<>>)

\* for comparison: a move_file without the destination's test
MoveRegardless(target_exists, override_files) == TRUE

\* the destination's test before the move: whether the move goes ahead
MayMove(target_exists, override_files) == ~target_exists \/ override_files

\* shutil.move(source, dst), after the destination's test: dst.into says that
\* dst is the place in an existing directory named like the target path
ShutilMove(source_dir, filename, dst, target_exists, override_files, fault) ==
    LET src == FileAt(source_dir, filename)
        old == FileAt(dst.dir, dst.name)
        same == source_dir = dst.dir /\ filename = dst.name
        refused == src = {} \/ (dst.into /\ old # {})
        struck == ~refused /\ fault \in {"move", "move_copied"}
        copy == {[dir |-> dst.dir, name |-> dst.name, orig |-> f.orig] : f \in src}
    IN  IF ~MayMove(target_exists, override_files)
        THEN [outcome |-> "conflict", files |-> files, dst |-> File(dst.dir, dst.name),
              used |-> FALSE]
        ELSE IF refused \/ struck
        THEN [outcome |-> OnMoveException,
              \* a copy to another filesystem whose source cannot be unlinked
              files |-> IF struck /\ fault = "move_copied" /\ ~same
                        THEN (files \ old) \cup copy ELSE files,
              dst |-> File(dst.dir, dst.name), used |-> struck]
        ELSE [outcome |-> "moved",
              files |-> IF same THEN files ELSE ((files \ src) \ old) \cup copy,
              dst |-> File(dst.dir, dst.name), used |-> FALSE]

\* target_path, and where shutil.move puts the file: into target_path when
\* that is a directory, keeping the base name
MoveNamed(source_dir, filename, target_dir, name, override_files, fault, ds) ==
    Only({ShutilMove(source_dir, filename, dst, dst.into \/ FileAt(target_dir, name) # {},
                     override_files, fault) :
          dst \in {IF (target_dir \o <<name>>) \in ds
                   THEN [dir |-> target_dir \o <<name>>, name |-> filename, into |-> TRUE]
                   ELSE [dir |-> target_dir, name |-> name, into |-> FALSE]}})

\* [outcome: moved, conflict, fail_move or raise; files afterwards; dst; used]
move_file(source_dir, filename, target_dir, override_files, fault, ds) ==
    MoveNamed(source_dir, filename, target_dir, Parsed[filename].target, override_files,
              fault, ds)

\* moved_videos[key] = (target_dir, root): a dict keeps a key's first position
DictSet(d, key, target_dir, root) ==
    LET entry == [key |-> key, target_dir |-> target_dir, root |-> root]
    IN  IF \E i \in 1..Len(d) : d[i].key = key
        THEN [i \in 1..Len(d) |-> IF d[i].key = key THEN entry ELSE d[i]]
        ELSE Append(d, entry)

\* for comparison: a lookup that forgets the record's directory
AnyDirectoryMatches(rec, root, subtitle_basename) == StartsWith(subtitle_basename, rec.key)

\* whether a record binds a subtitle of directory root
RecordMatches(rec, root, subtitle_basename) ==
    rec.root = root /\ StartsWith(subtitle_basename, rec.key)

\* the first record of moved_videos, in the dict's order, that matches;
\* 0 when none does
corresponding_video(root, subtitle_basename) ==
    Leftmost({i \in 1..Len(moved_videos) : RecordMatches(moved_videos[i], root, subtitle_basename)})


(***************************************************************************)
(* The loop bodies of process_directory                                    *)
(***************************************************************************)
FaultKinds == {"none", "mkdir_show", "mkdir_season", "move", "move_copied"}

Plain(outcome) ==
    [outcome |-> outcome, dirs |-> dirs, files |-> files, used |-> FALSE,
     target |-> None, dst |-> NoFile]

\* a loop body's result: [outcome, dirs and files afterwards, used, target, dst]
Moved(made, mv) ==
    [outcome |-> mv.outcome, dirs |-> made.dirs, files |-> mv.files, used |-> mv.used,
     target |-> made.target, dst |-> mv.dst]

\* move_file into the directory that create_target_directory returned
Relocate(root, filename, fault, made) ==
    IF made.target = None
    THEN [outcome |-> "fail_mkdir", dirs |-> made.dirs, files |-> files,
          used |-> made.used, target |-> None, dst |-> NoFile]
    ELSE Only({Moved(made, mv) :
               mv \in {move_file(root, filename, made.target, cfg.override_files, fault,
                                 made.dirs)}})

\* extract_show_info's result decides between failure and placement
Place(root, filename, fault, show) ==
    IF show[1] \in {None, <<>>} \/ show[2] \in {None, <<>>} THEN Plain("fail_extract")
    ELSE Only({Relocate(root, filename, fault, made) :
               made \in {create_target_directory(cfg.tgt, show[1], show[2], fault)}})

\* phase 1's body for one file of directory root
VideoBody(root, filename, fault) ==
    IF Parsed[filename].ext \notin VIDEO_EXTENSIONS THEN Plain("continue")
    ELSE IF ~Parsed[filename].tv THEN Plain("skip_not_tv")
    ELSE IF ~Matching[filename][<<cfg.resolution, cfg.codec>>]
    THEN Plain("skip_filter")
    ELSE IF cfg.require_ai_subtitle /\ ~has_ai_subtitle(root, filename)
    THEN Plain("skip_no_ai")
    ELSE Place(root, filename, fault, Parsed[filename].show)

\* move_file into the directory of the record at position at
FollowVideo(root, filename, fault, at) ==
    IF at = 0 THEN Plain("skip_no_video")
    ELSE Only({Moved([dirs |-> dirs, target |-> moved_videos[at].target_dir], mv) :
               mv \in {move_file(root, filename, moved_videos[at].target_dir,
                                 cfg.override_files, fault, dirs)}})

\* phase 2's body for one file of directory root
SubtitleBody(root, filename, fault) ==
    IF Parsed[filename].ext \notin SUBTITLE_EXTENSIONS THEN Plain("continue")
    ELSE IF ~Parsed[filename].tv THEN Plain("skip_not_tv")
    ELSE IF ~Matching[filename][<<cfg.resolution, cfg.codec>>]
    THEN Plain("skip_filter")
    ELSE Only({FollowVideo(root, filename, fault, at) :
               at \in {corresponding_video(root, Parsed[filename].stem)}})

Skips == {"skip_not_tv", "skip_filter", "skip_no_ai", "skip_no_video"}
Failures == {"fail_extract", "fail_mkdir", "conflict", "fail_move"}

Bump(n, hit) == IF hit THEN n + 1 ELSE n

\* the bookkeeping both loop bodies share: the counters, the walk, the history
Account(phase, root, filename, r) ==
    /\ dirs' = r.dirs
    /\ files' = r.files
    /\ success_count' = Bump(success_count, r.outcome = "moved")
    /\ failure_count' = Bump(failure_count, r.outcome \in Failures)
    /\ skipped_count' = Bump(skipped_count, r.outcome \in Skips)
    /\ processed_dirs' = IF r.outcome = "moved" THEN processed_dirs \cup {root}
                         ELSE processed_dirs
    /\ faults' = Bump(faults, r.used)
    /\ evals' = evals \cup
         {[phase |-> phase, dir |-> root, name |-> filename, outcome |-> r.outcome,
           ai |-> FileAt(root, Parsed[filename].stem \o AiSuffix) # {},
           dst |-> r.dst,
           orig |-> IF FileAt(root, filename) = {} THEN NoFile
                    ELSE (CHOOSE f \in FileAt(root, filename) : TRUE).orig]}
    /\ IF r.outcome = "raise"
       THEN pc' = "aborted" /\ walk' = walk
       ELSE /\ pc' = pc
            /\ walk' = Advance([walk EXCEPT ![Len(walk)].files = @ \ {filename}])

Top == walk[Len(walk)]
AtFile == walk # <<>> /\ Top.kids = {} /\ Top.files # {}
\* for comparison: a loop that may stop before its generator is exhausted
WalkAbandoned == TRUE

\* the for loop over os.walk ends when the generator is exhausted
WalkExhausted == walk = <<>>

VisitVideo ==
    /\ pc = "video" /\ AtFile
    /\ \E filename \in Top.files, fault \in FaultKinds :
         /\ fault # "none" => faults < MaxFaults
         /\ \E r \in {VideoBody(Top.dir, filename, fault)} :
              /\ (fault # "none") = r.used
              /\ Account("video", Top.dir, filename, r)
              /\ moved_videos' =
                   IF r.outcome = "moved"
                   THEN DictSet(moved_videos, Parsed[filename].stem, r.target, Top.dir)
                   ELSE moved_videos
    /\ UNCHANGED <<cfg, removed_dirs_count, started, cleanVars, extractVars>>

VisitSubtitle ==
    /\ pc = "subtitle" /\ AtFile
    /\ \E filename \in Top.files, fault \in FaultKinds :
         /\ fault # "none" => faults < MaxFaults
         /\ \E r \in {SubtitleBody(Top.dir, filename, fault)} :
              /\ (fault # "none") = r.used
              /\ Account("subtitle", Top.dir, filename, r)
    /\ UNCHANGED <<cfg, moved_videos, removed_dirs_count, started, cleanVars, extractVars>>

\* os.walk(topdown=False) turns to a subdirectory: it is listed now, after
\* its earlier siblings were yielded
ListDir ==
    /\ pc \in {"video", "subtitle"}
    /\ walk # <<>> /\ Top.kids # {}
    /\ \E c \in Top.kids :
         LET rest == [walk EXCEPT ![Len(walk)].kids = @ \ {c}]
         IN  walk' = Advance(IF c \in dirs THEN Append(rest, Frame(c)) ELSE rest)
    /\ UNCHANGED <<cfg, fsVars, pc, countVars, processed_dirs, moved_videos, faults,
                   evals, started, cleanVars, extractVars>>

SourceFiles == {File(f.dir, f.name) : f \in FilesUnder(cfg.src)}

\* main's checks of source_dir and target_dir, then the first walk begins
Preflight ==
    /\ pc = "main"
    /\ \E access \in BOOLEAN :
         IF cfg.src \in dirs /\ cfg.tgt \in dirs /\ access
         THEN /\ pc' = "video"
              /\ walk' = Advance(<<Frame(cfg.src)>>)
              /\ started' = [started EXCEPT !.video = SourceFiles]
         ELSE /\ pc' = "exit1"
              /\ UNCHANGED <<walk, started>>
    /\ UNCHANGED <<cfg, fsVars, countVars, processed_dirs, moved_videos, faults, evals,
                   cleanVars, extractVars>>

\* the first loop is over: the second os.walk begins
BeginSubtitlePhase ==
    /\ pc = "video" /\ WalkExhausted
    /\ pc' = "subtitle"
    /\ walk' = Advance(<<Frame(cfg.src)>>)
    /\ started' = [started EXCEPT !.subtitle = SourceFiles]
    /\ UNCHANGED <<cfg, fsVars, countVars, processed_dirs, moved_videos, faults, evals,
                   cleanVars, extractVars>>

\* sorted(processed_dirs, key=lambda x: x.count(os.sep), reverse=True): a
\* stable sort of a set's arbitrary order
SortedOrders(S) ==
    {q \in [1..Cardinality(S) -> S] :
        /\ \A i, j \in 1..Cardinality(S) : i # j => q[i] # q[j]
        /\ \A i, j \in 1..Cardinality(S) : i < j => SepCount(q[i]) >= SepCount(q[j])}

\* the second loop is over: with remove_source the cleanup begins, without
\* it the counts are returned
BeginCleanup ==
    /\ pc = "subtitle" /\ WalkExhausted
    /\ \E option \in BOOLEAN :
         /\ remove_source' = option
         /\ IF option
            THEN /\ pc' = "cleanup"
                 /\ sorted_dirs' \in SortedOrders(processed_dirs)
            ELSE /\ pc' = "done"
                 /\ sorted_dirs' = sorted_dirs
    /\ UNCHANGED <<cfg, fsVars, walk, countVars, processed_dirs, moved_videos, faults,
                   evals, started, ci, deleted, extractVars>>

\* what a failing shutil.rmtree(d) may have deleted before it raised: some
\* files, and some directories below d that it had emptied
PartialRemovals(d) ==
    {x \in [files : SUBSET FilesUnder(d), dirs : SUBSET (DirsUnder(d) \ {d})] :
        \A e \in x.dirs :
            /\ {f \in FilesUnder(d) : f.dir = e} \subseteq x.files
            /\ {k \in DirsUnder(d) : Parent(k) = e /\ k # e} \subseteq x.dirs}

\* the removal of the filesystem root never completes
RmtreeCanSucceed(d) == d # <<>>

\* one pass of the cleanup loop
CleanupDir ==
    /\ pc = "cleanup" /\ ci < Len(sorted_dirs)
    /\ LET dir_path == sorted_dirs[ci + 1]
       IN  \E raised \in BOOLEAN :
             IF ~can_remove_directory(dir_path)
             THEN /\ ~raised
                  /\ pc' = pc
                  /\ UNCHANGED <<fsVars, removed_dirs_count, faults, deleted>>
             ELSE IF ~raised
             THEN /\ RmtreeCanSucceed(dir_path)
                  /\ files' = files \ FilesUnder(dir_path)
                  /\ dirs' = dirs \ DirsUnder(dir_path)
                  /\ removed_dirs_count' = removed_dirs_count + 1
                  /\ deleted' = [files |-> deleted.files \cup FilesUnder(dir_path),
                                 dirs |-> deleted.dirs \cup DirsUnder(dir_path),
                                 removed |-> deleted.removed \cup
                                     {[dir |-> dir_path, held |-> FilesUnder(dir_path)]}]
                  /\ faults' = faults
                  /\ pc' = pc
             ELSE /\ faults < MaxFaults \/ ~RmtreeCanSucceed(dir_path)
                  /\ \E x \in PartialRemovals(dir_path) :
                       /\ files' = files \ x.files
                       /\ dirs' = dirs \ x.dirs
                       /\ deleted' = [deleted EXCEPT !.files = @ \cup x.files,
                                                     !.dirs = @ \cup x.dirs]
                  /\ removed_dirs_count' = removed_dirs_count
                  /\ faults' = Bump(faults, RmtreeCanSucceed(dir_path))
                  /\ pc' = IF OnRmtreeException = "logged" THEN pc ELSE "aborted"
    /\ ci' = ci + 1
    /\ UNCHANGED <<cfg, remove_source, walk, success_count, failure_count, skipped_count,
                   processed_dirs, moved_videos, evals, started, sorted_dirs, extractVars>>

\* the cleanup loop is over: the counts are returned
Finish ==
    /\ pc = "cleanup" /\ ci = Len(sorted_dirs)
    /\ pc' = "done"
    /\ UNCHANGED <<cfg, fsVars, walk, countVars, processed_dirs, moved_videos, faults,
                   evals, started, cleanVars, extractVars>>


(***************************************************************************)
(* The run: main, then process_directory                                   *)
(***************************************************************************)
\* the filters are drawn with source_dir and target_dir apart
Configs ==
    {c \in [src : {p.src : p \in Placements}, tgt : {p.tgt : p \in Placements},
            resolution : {f[1] : f \in Filters}, codec : {f[2] : f \in Filters},
            require_ai_subtitle : BOOLEAN, override_files : BOOLEAN] :
        /\ [src |-> c.src, tgt |-> c.tgt] \in Placements
        /\ <<c.resolution, c.codec>> \in Filters
        /\ <<c.resolution, c.codec>> # <<None, None>> => c.src = <<cS>> /\ c.tgt = <<cT>>}

Trees(src, tgt) == {t \in SUBSET Candidates(src, tgt) : Cardinality(t) <= MaxFiles}

Idle ==
    /\ pc = "main"
    /\ remove_source = FALSE
    /\ walk = <<>>
    /\ success_count = 0 /\ failure_count = 0 /\ skipped_count = 0
    /\ removed_dirs_count = 0
    /\ processed_dirs = {}
    /\ moved_videos = <<>>
    /\ sorted_dirs = <<>> /\ ci = 0
    /\ faults = 0
    /\ evals = {}
    /\ started = [video |-> {}, subtitle |-> {}]
    /\ deleted = [files |-> {}, dirs |-> {}, removed |-> {}]

\* a source tree under an existing source_dir and target_dir; or, with no
\* files, a missing source_dir or target_dir
Init ==
    /\ cfg \in Configs
    /\ \E t \in Trees(cfg.src, cfg.tgt), missing \in {"none", "source", "target"} :
         /\ missing # "none" => t = {}
         /\ files = {[dir |-> f.dir, name |-> f.name, orig |-> f] : f \in t}
         /\ dirs = UNION {Ancestors(f.dir) : f \in t}
                   \cup (IF missing = "source" /\ cfg.src # <<>> THEN {<<>>}
                         ELSE Ancestors(cfg.src))
                   \cup (IF missing = "none" THEN Ancestors(cfg.tgt) ELSE {<<>>})
    /\ Idle
    /\ fname = <<>> /\ info = <<>>

Next ==
    \/ Preflight
    \/ ListDir
    \/ VisitVideo
    \/ BeginSubtitlePhase
    \/ VisitSubtitle
    \/ BeginCleanup
    \/ CleanupDir
    \/ Finish

Spec == Init /\ [][Next]_vars

\* the run is one sequential program: it takes its next step
FairSpec == Spec /\ WF_vars(Next)

(***************************************************************************)
(* extract_show_info on the filenames <Title>.<Year>.S<NN>E<MM>.<tags>     *)
(***************************************************************************)
MaxTitleTokens == 2
MaxTags == 2

TitleTokens == {<<"T", "h", "e">>, <<"W">>}
TitleSeparators == {<<".">>, <<" ">>}
Years == {<<"2", "0", "2", "1">>, <<"1", "9", "9", "9">>}
SeasonDigits == {<<"3">>, <<"0", "3">>, <<"1", "2">>}
EpisodeDigits == {<<"0", "4">>}
TagTokens == {<<"7", "2", "0", "p">>, <<"x", "2", "6", "5">>, <<"m", "k", "v">>}

SeqsUpTo(S, n) == UNION {[1..k -> S] : k \in 1..n}

RECURSIVE Join(_, _)
Join(toks, sep) ==
    IF Len(toks) = 1 THEN toks[1] ELSE toks[1] \o sep \o Join(Tail(toks), sep)

FormParts ==
    [title : SeqsUpTo(TitleTokens, MaxTitleTokens), sep : TitleSeparators, year : Years,
     nn : SeasonDigits, mm : EpisodeDigits, tags : SeqsUpTo(TagTokens, MaxTags)]

FormName(p) ==
    Join(p.title, p.sep) \o <<".">> \o p.year \o <<".", "S">> \o p.nn \o <<"E">> \o p.mm
        \o <<".">> \o Join(p.tags, <<".">>)

InitExtract ==
    /\ cfg \in {c \in Configs : c.src = <<cS>> /\ c.tgt = <<cT>> /\ c.resolution = None
                                /\ c.codec = None
                                /\ c.require_ai_subtitle /\ c.override_files}
    /\ files = {} /\ dirs = {<<>>}
    /\ Idle
    /\ fname \in FormParts
    /\ info = <<>>

Extract ==
    /\ info = <<>>
    /\ info' = extract_show_info(FormName(fname))
    /\ UNCHANGED <<cfg, fsVars, pc, walk, countVars, processed_dirs, moved_videos, faults,
                   evals, started, cleanVars, fname>>

SpecExtract == InitExtract /\ [][Extract]_vars


(***************************************************************************)
(* The properties                                                          *)
(***************************************************************************)
VideoEvals == {e \in evals : e.phase = "video"}
SubtitleEvals == {e \in evals : e.phase = "subtitle"}
MovedVideos == {e \in VideoEvals : e.outcome = "moved"}
MovedSubtitles ==
    {e \in SubtitleEvals :
        e.outcome = "moved" /\ Parsed[e.name].ext \in SUBTITLE_EXTENSIONS}

StemOf(e) == Parsed[e.name].stem
IsStrictPrefix(p, s) == StartsWith(s, p) /\ p # s

\* the relocated videos of s's directory whose stem begins s's stem
Leaders(s) == {v \in MovedVideos : v.dir = s.dir /\ StartsWith(StemOf(s), StemOf(v))}

\* C1, as the code has it: a subtitle is relocated only if a video of the same
\* source directory, whose stem is a prefix of the subtitle's stem or equal to
\* it, was relocated before in the same run
C1_SubtitleFollowsVideo == \A s \in MovedSubtitles : Leaders(s) # {}

\* a subtitle was relocated after a video of the very same stem
C1_Witness ==
    \E s \in MovedSubtitles : \E v \in Leaders(s) : StemOf(v) = StemOf(s)

\* C1, as stated: once the run is over, a subtitle has been relocated if and
\* only if a video of its directory with a strictly shorter stem that begins
\* the subtitle's stem was relocated
C1_AsStated ==
    pc = "done" =>
        \A s \in {e \in SubtitleEvals : Parsed[e.name].ext \in SUBTITLE_EXTENSIONS} :
            (s.outcome = "moved") <=>
                (\E v \in MovedVideos : v.dir = s.dir /\ IsStrictPrefix(StemOf(v), StemOf(s)))

\* C2, as stated: no directory that cleanup removed held, when it was removed,
\* a file outside the harmless extensions, in it or below it
C2_RemovedOnlyHarmless ==
    \A r \in deleted.removed :
        \A f \in r.held : Parsed[f.name].ext \in IGNORED_EXTENSIONS

InTargetTree(d) == IsPrefixDir(cfg.tgt, d) /\ Len(d) > Len(cfg.tgt)

\* C3, as stated: nothing of the target tree is deleted by the run, neither a
\* show or season directory nor a file in one
C3_TargetTreeKept ==
    /\ \A d \in deleted.dirs : ~InTargetTree(d)
    /\ \A f \in deleted.files : ~InTargetTree(f.dir)

\* the videos evaluated under the companion requirement with no companion
\* beside them
Unaccompanied ==
    {v \in VideoEvals :
        cfg.require_ai_subtitle /\ ~v.ai /\ Parsed[v.name].ext \in VIDEO_EXTENSIONS}

\* the subtitles of v's directory whose stem starts with v's stem
Followers(v) ==
    {s \in SubtitleEvals :
        /\ s.dir = v.dir
        /\ Parsed[s.name].ext \in SUBTITLE_EXTENSIONS
        /\ StartsWith(StemOf(s), StemOf(v))}

Counted(outcomes) == Cardinality({e \in evals : e.outcome \in outcomes})

\* C4, as the code has it: under the companion requirement a video without
\* "<stem>.ai.srt" beside it is skipped, counted as skipped and not as a
\* failure, and a subtitle of its directory whose stem starts with its stem
\* is skipped too unless a relocated video of that directory also begins the
\* subtitle's stem
C4_UnaccompaniedSkipped ==
    /\ skipped_count = Counted(Skips)
    /\ failure_count = Counted(Failures)
    /\ \A v \in Unaccompanied :
         /\ v.outcome \in Skips
         /\ \A s \in Followers(v) : Leaders(s) = {} => s.outcome \in Skips

\* a video was skipped for its missing companion and a subtitle carrying its
\* stem was skipped for want of a record
C4_Witness ==
    \E v \in Unaccompanied :
        /\ v.outcome = "skip_no_ai"
        /\ \E s \in Followers(v) : s.outcome = "skip_no_video"

\* C4, as stated: every subtitle of the directory whose stem starts with the
\* skipped video's stem is skipped as well
C4_AsStated ==
    \A v \in Unaccompanied :
        /\ v.outcome \in Skips
        /\ \A s \in Followers(v) : s.outcome \in Skips

\* the evaluations of this step that reached move_file with a file standing
\* at the destination
Blocked ==
    {e \in evals' \ evals : e.dst # NoFile /\ FileAt(e.dst.dir, e.dst.name) # {}}

\* C5: with override disabled a move onto an existing file fails, the source
\* and the destination stay as they were, failure_count grows by one, and
\* neither a record nor a touched directory is added
C5_NoOverrideConflict ==
    [][~cfg.override_files =>
          \A e \in Blocked :
              /\ e.outcome = "conflict"
              /\ files' = files
              /\ failure_count' = failure_count + 1
              /\ success_count' = success_count
              /\ moved_videos' = moved_videos
              /\ processed_dirs' = processed_dirs]_vars

\* a video met a file at its destination with override disabled, and both
\* files are where they were
C5_Witness ==
    /\ ~cfg.override_files
    /\ \E e \in VideoEvals :
         /\ e.outcome = "conflict"
         /\ FileAt(e.dir, e.name) # {}
         /\ FileAt(e.dst.dir, e.dst.name) # {}

\* the files a phase has evaluated so far, given the history
VisitedIn(history, phase) == {File(e.dir, e.name) : e \in {x \in history : x.phase = phase}}

PhaseSteps ==
    {<<"main", "video">>, <<"main", "exit1">>, <<"video", "subtitle">>,
     <<"subtitle", "cleanup">>, <<"subtitle", "done">>, <<"cleanup", "done">>}

\* C6: the run goes from the video phase to the subtitle phase to the end in
\* that order; a subtitle is evaluated only once phase 1 has visited every
\* file the source tree held, phase 2 leaves the records alone, and cleanup
\* begins only once phase 2 has visited every file the source tree held
C6_PhaseOrder ==
    [][/\ pc' # pc => <<pc, pc'>> \in PhaseSteps
       /\ pc' \in {"subtitle", "cleanup", "done"} =>
              started'.video \subseteq VisitedIn(evals', "video")
       /\ VisitedIn(evals', "subtitle") # VisitedIn(evals, "subtitle") => pc = "subtitle"
       /\ VisitedIn(evals', "video") # VisitedIn(evals, "video") => pc = "video"
       /\ pc \in {"subtitle", "cleanup", "done"} => moved_videos' = moved_videos
       /\ pc' \in {"cleanup", "done"} =>
              started'.subtitle \subseteq VisitedIn(evals', "subtitle")]_vars

\* cleanup is under way after both phases evaluated files of a tree with a
\* subdirectory, and a subtitle followed its video
C6_Witness ==
    /\ pc = "cleanup"
    /\ MovedSubtitles # {}
    /\ \E a, b \in started.video : a.dir # b.dir

\* the title with its separators rendered as spaces, and "S" with the season
\* number padded to two digits
ExpectedShow(p) == Join(p.title, <<" ">>)
ExpectedSeason(p) == <<"S">> \o (IF Len(p.nn) = 1 THEN <<"0">> \o p.nn ELSE p.nn)

\* C7, as stated: for a filename <Title>.<Year>.S<NN>E<MM>.<tags>
\* extract_show_info returns the title with spaces for separators and the
\* season as S and two digits
C7_ExtractsTitleAndSeason ==
    info # <<>> => info = <<ExpectedShow(fname), ExpectedSeason(fname)>>

Accounted ==
    /\ success_count = Counted({"moved"})
    /\ failure_count = Counted(Failures)
    /\ skipped_count = Counted(Skips)
    /\ removed_dirs_count = Cardinality(deleted.removed)

IsBelow(d, a) == IsPrefixDir(a, d) /\ d # a

\* C9, as stated: of two touched directories, one below the other, cleanup
\* evaluates the lower one first
C9_DeepestFirst ==
    \A i, j \in 1..ci : i < j => ~IsBelow(sorted_dirs[j], sorted_dirs[i])

\* C10, as stated: with overwriting allowed and no cleanup, every file counted
\* as a success is in the target tree when the run ends
C10_SuccessesKept ==
    (pc = "done" /\ cfg.override_files /\ ~remove_source) =>
        \A e \in {x \in evals : x.outcome = "moved"} :
            \E f \in files : f.orig = e.orig /\ InTargetTree(f.dir)

=============================================================================
